---------------------------- MODULE Spec2Model ----------------------------
(***************************************************************************)
(* Model of src/index.js: the Emitter mixin (listener registry: on, once,  *)
(* off, trigger) and the exported event bus (channel router: addChannel,   *)
(* removeChannel, on, once, off, emit).                                    *)
(*                                                                         *)
(* Representation.                                                         *)
(*  - A JavaScript string is a sequence of tokens.  A token is a delimiter *)
(*    character (":", " ", "@") or a word that holds no delimiter, so the  *)
(*    splitting the code does with /\s+/, /:/ and '@' is computed on the   *)
(*    token sequence exactly as String.prototype.split computes it on the  *)
(*    characters.  The empty string is <<>>; it is falsy like undefined.   *)
(*  - A function value is [kind, fn, wid]: a user function ("fn"), the     *)
(*    guard closure built by once ("once", fn its _callback, wid its       *)
(*    identity), a handle-id string '#n' passed in the callback position   *)
(*    ("id"), or undefined ("none").                                       *)
(*  - An object reference is [obj, n]: undefined, the bus, a user object,  *)
(*    or the registry object number n.                                     *)
(*  - The call stack is explicit: one frame per running triggerEvents      *)
(*    dispatch whose current listener has not returned yet.  Code run by a *)
(*    listener (reentrant calls) is the same set of actions, taken while   *)
(*    the stack is not empty.                                              *)
(*  - A bucket (this._events[name]) is an array object.  on pushes onto    *)
(*    the array in place, off puts a new array in the bucket's place.  The *)
(*    registry keeps a tag per bucket (arr) that changes whenever the      *)
(*    bucket gets another array object, so that a dispatch holding a       *)
(*    reference to an array can tell whether it still is the bucket's.     *)
(*  - Name arguments are strings; event maps ({name: callback}) are not    *)
(*    among the inputs explored.                                           *)
(***************************************************************************)
EXTENDS Integers, Sequences, FiniteSets, TLC

VARIABLES
    channels,     \* bus.channels: channel name -> registry object
    maxHashId,    \* the module-level counter behind the handle ids
    nextOid,      \* identity given to the next registry object created
    idCounter,    \* the counter behind _.uniqueId, which makes the _listenId values
    handles,      \* handle objects returned so far: id -> [self, name]
    onceCalled,   \* guard closures of once that have already run (_.once state)
    stack,        \* running dispatches, innermost last
    log,          \* history: every invocation of a user callback, in order
    calls,        \* history: every API call made, in order
    raised        \* history: the errors raised so far, in order

vars == <<channels, maxHashId, nextOid, idCounter, handles, onceCalled, stack, log, calls,
          raised>>

----------------------------------------------------------------------------
(* Bounds of the exploration *)

MaxCalls == 4
MaxErrors == 1

----------------------------------------------------------------------------
(* Strings *)

Colon == ":"
Space == " "
At    == "@"

Str(w) == <<w>>
EmptyStr == <<>>

DefaultChannel == Str("global")
AllName == Str("all")

\* RegExp.prototype.test for a one-character class: does s hold the delimiter
Test(s, d) == \E i \in 1..Len(s) : s[i] = d

FirstIdx(s, d) == CHOOSE i \in 1..Len(s) : s[i] = d /\ \A j \in 1..(i-1) : s[j] # d

\* String.prototype.split on every occurrence of the one-character delimiter d
RECURSIVE Split(_, _)
Split(s, d) ==
    IF ~Test(s, d) THEN <<s>>
    ELSE LET k == FirstIdx(s, d)
         IN  <<SubSeq(s, 1, k-1)>> \o Split(SubSeq(s, k+1, Len(s)), d)

\* String.prototype.split(/\s+/): a run of spaces is one separator
RECURSIVE SplitWs(_)
SplitWs(s) ==
    IF ~Test(s, Space) THEN <<s>>
    ELSE LET k == FirstIdx(s, Space)
             after == {m \in (k+1)..Len(s) : s[m] # Space}
             m == IF after = {} THEN Len(s) + 1
                  ELSE CHOOSE x \in after : \A y \in after : x <= y
         IN  <<SubSeq(s, 1, k-1)>> \o SplitWs(SubSeq(s, m, Len(s)))

\* index 0 and index 1 of an array (undefined index: not used by the code paths)
Part0(parts) == parts[1]
Part1(parts) == parts[2]

----------------------------------------------------------------------------
(* Values *)

NoCb == [kind |-> "none", fn |-> "", wid |-> 0]
Fn(f) == [kind |-> "fn", fn |-> f, wid |-> 0]
Wrapper(f, w) == [kind |-> "once", fn |-> f, wid |-> w]
HashKey(h) == [kind |-> "id", fn |-> "", wid |-> h]

Undefined == [obj |-> "undefined", n |-> 0]
Bus == [obj |-> "bus", n |-> 0]
User(k) == [obj |-> "user", n |-> k]
RegRef(oid) == [obj |-> "registry", n |-> oid]

\* the values undefined and null where a name is expected: one token that is
\* no word of a string (it holds a space)
VoidName == <<"void 0">>
NullName == <<"null value">>

TruthyCb(cb) == cb.kind # "none"
TruthyObj(o) == o.obj # "undefined"
TruthyStr(s) == s # EmptyStr

\* a || b on object references
OrElse(a, b) == IF TruthyObj(a) THEN a ELSE b

\* _.extend({}, Emitter): a registry object with no _events yet, no
\* _listenId (0) and no _listeningTo (listens is FALSE; the table maps the
\* _listenId of a source to the source object)
NewRegistry(oid) ==
    [oid |-> oid, hasEvents |-> FALSE, events |-> <<>>, arr |-> <<>>, nextArr |-> 1,
     listenId |-> 0, listens |-> FALSE, listeningTo |-> <<>>]

\* this._events[name], undefined when absent
HasBucket(reg, name) == reg.hasEvents /\ name \in DOMAIN reg.events
Bucket(reg, name) == IF HasBucket(reg, name) THEN reg.events[name] ELSE <<>>

SetBucket(tbl, name, evs) ==
    [n \in (DOMAIN tbl) \cup {name} |-> IF n = name THEN evs ELSE tbl[n]]


----------------------------------------------------------------------------
(* Emitter.off *)

\* (variant: off that never looks at _callback)
NoOriginal(cb) == NoCb

\* event.callback._callback: the original of a once guard, undefined otherwise
OriginalOf(cb) == IF cb.kind = "once" THEN Fn(cb.fn) ELSE NoCb

\* the condition under which off pushes event onto `remaining`
Remains(ev, callback, context) ==
    IF callback.kind = "id"
    THEN callback.wid # ev.id
    ELSE \/ /\ TruthyCb(callback)
            /\ callback # ev.callback
            /\ callback # OriginalOf(ev.callback)
         \/ /\ TruthyObj(context)
            /\ context # ev.context

Remaining(events, callback, context) ==
    SelectSeq(events, LAMBDA ev : Remains(ev, callback, context))

\* (variant: off() with no argument returns without clearing _events)
OffDirectNoReset(reg, name, callback, context) ==
    IF ~reg.hasEvents THEN reg
    ELSE IF ~TruthyStr(name) /\ ~TruthyCb(callback) /\ ~TruthyObj(context)
    THEN reg
    ELSE LET names == IF TruthyStr(name) THEN {name} \cap DOMAIN reg.events
                      ELSE DOMAIN reg.events
             gone == {n \in names :
                        \/ ~TruthyCb(callback) /\ ~TruthyObj(context)
                        \/ Remaining(reg.events[n], callback, context) = <<>>}
         IN  [reg EXCEPT !.events =
                            [n \in (DOMAIN reg.events) \ gone |->
                                IF n \in names
                                THEN Remaining(reg.events[n], callback, context)
                                ELSE reg.events[n]],
                         !.arr =
                            [n \in (DOMAIN reg.events) \ gone |->
                                IF n \in names THEN reg.nextArr ELSE reg.arr[n]],
                         !.nextArr = IF names \ gone = {} THEN @ ELSE @ + 1]

\* (variant: `remaining` is put in the bucket's place also when it is empty)
OffDirectKeepEmpty(reg, name, callback, context) ==
    IF ~reg.hasEvents THEN reg
    ELSE IF ~TruthyStr(name) /\ ~TruthyCb(callback) /\ ~TruthyObj(context)
    THEN [reg EXCEPT !.hasEvents = FALSE, !.events = <<>>, !.arr = <<>>]
    ELSE LET names == IF TruthyStr(name) THEN {name} \cap DOMAIN reg.events
                      ELSE DOMAIN reg.events
             gone == {n \in names : ~TruthyCb(callback) /\ ~TruthyObj(context)}
         IN  [reg EXCEPT !.events =
                            [n \in (DOMAIN reg.events) \ gone |->
                                IF n \in names
                                THEN Remaining(reg.events[n], callback, context)
                                ELSE reg.events[n]],
                         !.arr =
                            [n \in (DOMAIN reg.events) \ gone |->
                                IF n \in names THEN reg.nextArr ELSE reg.arr[n]],
                         !.nextArr = IF names \ gone = {} THEN @ ELSE @ + 1]

\* off with a name that eventsApi handles directly (one name, or a falsy one)
OffDirect(reg, name, callback, context) ==
    IF ~reg.hasEvents THEN reg
    ELSE IF ~TruthyStr(name) /\ ~TruthyCb(callback) /\ ~TruthyObj(context)
    THEN [reg EXCEPT !.hasEvents = FALSE, !.events = <<>>, !.arr = <<>>]
    ELSE LET names == IF TruthyStr(name) THEN {name} \cap DOMAIN reg.events
                      ELSE DOMAIN reg.events
             gone == {n \in names :
                        \/ ~TruthyCb(callback) /\ ~TruthyObj(context)
                        \/ Remaining(reg.events[n], callback, context) = <<>>}
         IN  [reg EXCEPT !.events =
                            [n \in (DOMAIN reg.events) \ gone |->
                                IF n \in names
                                THEN Remaining(reg.events[n], callback, context)
                                ELSE reg.events[n]],
                         !.arr =
                            [n \in (DOMAIN reg.events) \ gone |->
                                IF n \in names THEN reg.nextArr ELSE reg.arr[n]],
                         !.nextArr = IF names \ gone = {} THEN @ ELSE @ + 1]

RECURSIVE OffEach(_, _, _, _)
OffEach(reg, names, callback, context) ==
    IF names = <<>> THEN reg
    ELSE OffEach(OffDirect(reg, Head(names), callback, context),
                 Tail(names), callback, context)

\* Emitter.off(name, callback, context) on registry object reg
Off(reg, name, callback, context) ==
    IF ~reg.hasEvents THEN reg
    ELSE IF Test(name, Space)
    THEN OffEach(reg, SplitWs(name), callback, context)
    ELSE OffDirect(reg, name, callback, context)

----------------------------------------------------------------------------
(* Emitter.on and Emitter.once *)

NewRecord(callback, context, self, h) ==
    [callback |-> callback, context |-> context,
     ctx |-> OrElse(context, RegRef(self)), id |-> h]

\* this._events || (this._events = {}) and
\* this._events[name] || (this._events[name] = []): the bucket's array, a new
\* empty one when the bucket is missing
WithArray(reg, name) ==
    IF HasBucket(reg, name) THEN reg
    ELSE [reg EXCEPT !.hasEvents = TRUE,
                     !.events = SetBucket(reg.events, name, <<>>),
                     !.arr = SetBucket(reg.arr, name, reg.nextArr),
                     !.nextArr = @ + 1]

\* (variant: the record is put in front of the bucket, unshift for push)
PushFront(reg, name, rec) ==
    [WithArray(reg, name) EXCEPT !.events[name] = <<rec>> \o @]

\* events.push(record) on this._events[name]: the array is changed in place
Push(reg, name, rec) ==
    [WithArray(reg, name) EXCEPT !.events[name] = Append(@, rec)]

\* the callback stored by on (the function itself) or by once (a new guard)
Stored(callback, h, isOnce) == IF isOnce THEN Wrapper(callback.fn, h) ELSE callback

\* (variant: maxHashId is read but not incremented)
OnDirectSameId(st, name, callback, context, isOnce) ==
    IF ~TruthyCb(callback) THEN st
    ELSE [reg |-> Push(st.reg, name,
                       NewRecord(Stored(callback, st.h, isOnce), context, st.reg.oid, st.h)),
          h |-> st.h]

\* (variant: the test `!callback` is missing)
OnDirectNoCheck(st, name, callback, context, isOnce) ==
    [reg |-> Push(st.reg, name,
                  NewRecord(Stored(callback, st.h, isOnce), context, st.reg.oid, st.h)),
     h |-> st.h + 1]

\* on/once with one name: [reg, h] after the call; h is maxHashId
OnDirect(st, name, callback, context, isOnce) ==
    IF ~TruthyCb(callback) THEN st
    ELSE [reg |-> Push(st.reg, name,
                       NewRecord(Stored(callback, st.h, isOnce), context, st.reg.oid, st.h)),
          h |-> st.h + 1]

\* (variant: one hashKey is made for all the names of the call)
RECURSIVE OnEachSameId(_, _, _, _, _)
OnEachSameId(st, names, callback, context, isOnce) ==
    IF names = <<>> THEN st
    ELSE LET r == OnDirect(st, Head(names), callback, context, isOnce)
         IN  OnEachSameId([reg |-> r.reg, h |-> st.h], Tail(names),
                          callback, context, isOnce)

RECURSIVE OnEach(_, _, _, _, _)
OnEach(st, names, callback, context, isOnce) ==
    IF names = <<>> THEN st
    ELSE OnEach(OnDirect(st, Head(names), callback, context, isOnce),
                Tail(names), callback, context, isOnce)

\* Emitter.on / Emitter.once (name, callback, context) on registry reg
On(reg, h, name, callback, context, isOnce) ==
    IF TruthyStr(name) /\ Test(name, Space)
    THEN OnEach([reg |-> reg, h |-> h], SplitWs(name), callback, context, isOnce)
    ELSE OnDirect([reg |-> reg, h |-> h], name, callback, context, isOnce)

\* does the call return a handle {id, name, off} (else it returns this)
ReturnsHandle(name, callback) == ~Test(name, Space) /\ TruthyCb(callback)


----------------------------------------------------------------------------
(* Emitter.trigger and triggerEvents *)

\* the registry object numbered oid: the one in the channel table, or, once
\* removeChannel has cleared and dropped it, an object without _events
Attached(chs, oid) == \E c \in DOMAIN chs : chs[c].oid = oid
ChannelOf(chs, oid) == CHOOSE c \in DOMAIN chs : chs[c].oid = oid
ObjectOf(chs, oid) ==
    IF Attached(chs, oid) THEN chs[ChannelOf(chs, oid)] ELSE NewRegistry(oid)

\* obj.off(name, callback, context) on the registry object numbered oid
OffObject(chs, oid, name, callback, context) ==
    IF Attached(chs, oid)
    THEN [chs EXCEPT ![ChannelOf(chs, oid)] = Off(@, name, callback, context)]
    ELSE chs

\* the arguments a listener receives: the switch on args.length
CallArgs(args) ==
    CASE Len(args) = 0 -> <<>>
      [] Len(args) = 1 -> <<args[1]>>
      [] Len(args) = 2 -> <<args[1], args[2]>>
      [] Len(args) = 3 -> <<args[1], args[2], args[3]>>
      [] Len(args) = 4 -> <<args[1], args[2], args[3], args[4]>>
      [] OTHER -> args

Entries(events, args, bucket) ==
    [k \in 1..Len(events) |-> [rec |-> events[k], args |-> args, bucket |-> bucket]]

\* the two triggerEvents calls of trigger(name, ...args): the arrays are read
\* before the first listener runs, and each loop keeps its array and length
EventsOf(reg, name) == Bucket(reg, name)
AllEventsOf(reg, name) == Bucket(reg, AllName)
\* (variant: the "all" listeners get args, not arguments)
AllArgsNoName(name, args) == args

AllArgs(name, args) == <<name>> \o args

\* no array is waiting for the second triggerEvents call
NoPending == [has |-> FALSE, aid |-> 0, events |-> <<>>, name |-> <<>>]

\* var allEvents = this._events.all: a reference to the array that is the
\* "all" bucket when trigger(name) begins; `events` is what the array holds
Pending(reg, name) ==
    IF HasBucket(reg, AllName)
    THEN [has |-> TRUE, aid |-> reg.arr[AllName], events |-> AllEventsOf(reg, name),
          name |-> name]
    ELSE NoPending

\* (variant: the loop index starts at 0 and is incremented before its first use)
PlanOffByOne(reg, name, args) ==
    IF EventsOf(reg, name) = <<>> THEN <<>>
    ELSE Entries(Tail(EventsOf(reg, name)), args, name)

\* triggerEvents(events, args): the loop reads the array's length when it begins
Plan(reg, name, args) == Entries(EventsOf(reg, name), args, name)

\* triggerEvents(allEvents, arguments), begun when the first loop has ended
AllPlan(pend, args) == Entries(pend.events, AllArgs(pend.name, args), AllName)

\* (variant: trigger keeps a copy of the "all" array made when it begins)
SyncNone(stk, chs) == stk

\* what the arrays referenced by the running dispatches hold once the table
\* is chs: an array that still is the "all" bucket of its registry holds what
\* that bucket holds (on has pushed onto it in place); an array that off has
\* replaced is no longer changed
Sync(stk, chs) ==
    [k \in DOMAIN stk |->
        IF /\ stk[k].pend.has
           /\ HasBucket(ObjectOf(chs, stk[k].self), AllName)
           /\ ObjectOf(chs, stk[k].self).arr[AllName] = stk[k].pend.aid
        THEN [stk[k] EXCEPT !.pend.events = Bucket(ObjectOf(chs, stk[k].self), AllName)]
        ELSE stk[k]]

NewFrame(oid, names, args, call) ==
    [self |-> oid, rest |-> names, args |-> args, plan |-> <<>>, i |-> 0, call |-> call,
     pend |-> NoPending]

\* (variant: a guard that lets every call through)
NeverSpent(cb, called) == FALSE

\* has the guard _.once put around the callback already let one call through
Spent(cb, called) == cb.kind = "once" /\ cb.wid \in called

\* (variant: the loop looks the bucket up again at every turn and passes over
\* a record that is no longer in it)
RECURSIVE AdvanceLive(_, _, _)
AdvanceLive(fr, chs, called) ==
    IF fr.i < Len(fr.plan)
    THEN IF \/ Spent(fr.plan[fr.i + 1].rec.callback, called)
            \/ \A k \in 1..Len(Bucket(ObjectOf(chs, fr.self), fr.plan[fr.i + 1].bucket)) :
                  Bucket(ObjectOf(chs, fr.self), fr.plan[fr.i + 1].bucket)[k].id
                      # fr.plan[fr.i + 1].rec.id
         THEN AdvanceLive([fr EXCEPT !.i = @ + 1], chs, called)
         ELSE [done |-> FALSE, fr |-> [fr EXCEPT !.i = @ + 1]]
    ELSE IF fr.pend.has
    THEN AdvanceLive([fr EXCEPT !.plan = AllPlan(fr.pend, fr.args),
                                !.i = 0,
                                !.pend = NoPending], chs, called)
    ELSE IF fr.rest # <<>>
    THEN AdvanceLive([fr EXCEPT !.rest = Tail(@),
                                !.plan = Plan(ObjectOf(chs, fr.self), Head(fr.rest), fr.args),
                                !.i = 0,
                                !.pend = Pending(ObjectOf(chs, fr.self), Head(fr.rest))],
                     chs, called)
    ELSE [done |-> TRUE, fr |-> fr]

\* run the dispatch of frame fr up to its next listener call, or to its end
RECURSIVE Advance(_, _, _)
Advance(fr, chs, called) ==
    IF fr.i < Len(fr.plan)
    THEN IF Spent(fr.plan[fr.i + 1].rec.callback, called)
         THEN Advance([fr EXCEPT !.i = @ + 1], chs, called)
         ELSE [done |-> FALSE, fr |-> [fr EXCEPT !.i = @ + 1]]
    ELSE IF fr.pend.has
    THEN Advance([fr EXCEPT !.plan = AllPlan(fr.pend, fr.args),
                            !.i = 0,
                            !.pend = NoPending], chs, called)
    ELSE IF fr.rest # <<>>
    THEN Advance([fr EXCEPT !.rest = Tail(@),
                            !.plan = Plan(ObjectOf(chs, fr.self), Head(fr.rest), fr.args),
                            !.i = 0,
                            !.pend = Pending(ObjectOf(chs, fr.self), Head(fr.rest))],
                 chs, called)
    ELSE [done |-> TRUE, fr |-> fr]

\* the names trigger dispatches one after the other (eventsApi)
TriggerNames(name) == IF TruthyStr(name) /\ Test(name, Space) THEN SplitWs(name) ELSE <<name>>

\* one entry of the history `log`: the user function called, its this and its
\* arguments, the record and the registry it was called for, and the trigger
\* or emit call (index in `calls`) whose dispatch called it
Invocation(e, fr, depth) ==
    [fn |-> e.rec.callback.fn, id |-> e.rec.id, this |-> e.rec.ctx,
     args |-> CallArgs(e.args), once |-> e.rec.callback.kind = "once",
     bucket |-> e.bucket, self |-> fr.self, call |-> fr.call, depth |-> depth]

\* the guard of once removes its own record before it calls the original
SelfRemoval(chs, fr, e) ==
    IF e.rec.callback.kind = "once"
    THEN OffObject(chs, fr.self, e.bucket, e.rec.callback, Undefined)
    ELSE chs

\* Continue the dispatch fr above the frames stk, in the channel table chs:
\* call its next listener (the frame stays on the stack while the listener
\* runs) or end it.
Dispatch(stk, fr, chs) ==
    LET a == Advance(fr, chs, onceCalled)
        e == a.fr.plan[a.fr.i]
    IN  IF a.done
        THEN /\ stack' = stk
             /\ channels' = chs
             /\ UNCHANGED <<onceCalled, log>>
        ELSE /\ stack' = Append(stk, a.fr)
             /\ channels' = SelfRemoval(chs, a.fr, e)
             /\ onceCalled' = IF e.rec.callback.kind = "once"
                              THEN onceCalled \cup {e.rec.callback.wid}
                              ELSE onceCalled
             /\ log' = Append(log, Invocation(e, a.fr, Len(stk) + 1))


----------------------------------------------------------------------------
(* The inputs explored *)

Evt == Str("evt")
ChanA == Str("chanA")
EvtAll == <<"evt", Space, "all">>
ChanAEvt == <<"chanA", Colon, "evt">>
NoChanEvt == <<Colon, "evt">>
AtChanA == <<At, "chanA">>
ArgX == Str("x")

EventNames == {Evt, AllName}
Callbacks == {Fn("f"), Fn("g")}
ArgLists == {<<>>, <<ArgX>>}

\* <<name, callback, context, isOnce>> of the on/once calls on a registry
OnInputs ==
    (EventNames \X Callbacks \X {Undefined} \X BOOLEAN)
        \cup ({Evt} \X {NoCb} \X {Undefined} \X BOOLEAN)
        \cup {<<Evt, Fn("f"), User(1), FALSE>>, <<EvtAll, Fn("f"), Undefined, FALSE>>}

\* <<name, callback, context>> of the off calls on a registry
OffInputs ==
    ((EventNames \cup {EmptyStr}) \X {Fn("f"), NoCb} \X {Undefined})
        \cup {<<Evt, NoCb, User(1)>>, <<EvtAll, Fn("f"), Undefined>>}

\* <<name, args>> of the trigger calls on a registry
TriggerInputs == (EventNames \X ArgLists) \cup {<<EvtAll, <<ArgX>>>>}

\* <<name, callback, context, isOnce>> of bus.on / bus.once
BusOnInputs ==
    ({Evt, ChanAEvt} \X {Fn("f")} \X {Undefined} \X BOOLEAN)
        \cup ({ChanAEvt, NoChanEvt} \X {NoCb} \X {Undefined} \X BOOLEAN)
        \cup {<<ChanAEvt, Fn("g"), User(1), FALSE>>}

\* <<name, cb>> of bus.off with a name
BusOffInputs == {<<AtChanA, NoCb>>, <<ChanAEvt, Fn("f")>>, <<Evt, NoCb>>}

\* <<name, args>> of bus.emit
EmitInputs == {Evt, ChanAEvt} \X {<<ArgX>>}

ChannelInputs == {ChanA, EmptyStr}

\* the names given to addChannel and removeChannel
ChannelNameInputs == {ChanA, EmptyStr, VoidName, NullName}

ChanAEvtAll == <<"chanA", Colon, "evt", Space, "all">>

\* <<name, callback, context, isOnce>> of bus.on / bus.once next to them
ChannelOnInputs ==
    {<<ChanAEvt, Fn("f"), Undefined, FALSE>>, <<ChanAEvt, Fn("g"), Undefined, TRUE>>,
     <<Evt, Fn("f"), Undefined, FALSE>>, <<ChanAEvtAll, Fn("g"), Undefined, FALSE>>}

\* <<name, callback, context, isOnce>>, <<name, callback, context>> and
\* <<name, args>> of the calls made around a dispatch and from inside it
DispatchOnInputs ==
    {<<Evt, Fn("f"), Undefined, FALSE>>, <<Evt, Fn("g"), Undefined, FALSE>>,
     <<Evt, Fn("g"), Undefined, TRUE>>, <<AllName, Fn("g"), Undefined, FALSE>>}
DispatchOffInputs ==
    {<<Evt, Fn("g"), Undefined>>, <<AllName, NoCb, Undefined>>, <<EmptyStr, NoCb, Undefined>>}
DispatchTriggerInputs == {<<Evt, <<ArgX>>>>}

\* <<name, callback, context, isOnce>> of the bus.on calls that create the
\* two channels, <<a, src, name, callback, isOnce>> of the listenTo and
\* listenToOnce calls, <<a, obj, name, callback>> of the stopListening calls
\* (obj is <<>> when absent, <<channel>> when given)
ListenOnInputs ==
    {<<Evt, Fn("f"), Undefined, FALSE>>, <<ChanAEvt, Fn("g"), Undefined, FALSE>>}
ListenToInputs ==
    {DefaultChannel, ChanA} \X {DefaultChannel, ChanA} \X {Evt} \X {Fn("f")} \X BOOLEAN
StopInputs ==
    {DefaultChannel, ChanA}
        \X {<<<<>>, EmptyStr, NoCb>>, <<<<DefaultChannel>>, Evt, NoCb>>, <<<<>>, Evt, Fn("f")>>}

\* names with a second colon
ChanAEvtC == <<"chanA", Colon, "evt", Colon, "c">>
ChanAEvtD == <<"chanA", Colon, "evt", Colon, "d">>

\* <<name, callback, context, isOnce>>, <<name, cb>> and <<name, args>> of
\* the bus calls made with these names
NameOnInputs == {ChanAEvtC, ChanAEvtD} \X {Fn("f")} \X {Undefined} \X BOOLEAN
NameOffInputs == {<<ChanAEvtC, NoCb>>}
NameEmitInputs == {ChanAEvtC, ChanAEvtD} \X {<<ArgX>>}

----------------------------------------------------------------------------
(* State *)

Init ==
    /\ channels = <<>>
    /\ maxHashId = 1000
    /\ nextOid = 1
    /\ idCounter = 0
    /\ handles = {}
    /\ onceCalled = {}
    /\ stack = <<>>
    /\ log = <<>>
    /\ calls = <<>>
    /\ raised = <<>>

\* an API call can be made by the program's top level or by a running listener
CanCall == Len(calls) < MaxCalls

Call(op, target, name, callback, context, args) ==
    [op |-> op, target |-> target, name |-> name, callback |-> callback,
     context |-> context, args |-> args, depth |-> Len(stack), at |-> Len(log),
     h |-> maxHashId, gone |-> {}, had |-> <<>>, hadAll |-> <<>>]

Error(what) == [what |-> what, depth |-> Len(stack), at |-> Len(log)]

\* the handle ids of the records of an array, in order, and of a whole table
IdsOf(events) == [k \in 1..Len(events) |-> events[k].id]
IdsIn(chs) ==
    UNION {UNION {{chs[c].events[n][k].id : k \in 1..Len(chs[c].events[n])} :
                    n \in DOMAIN chs[c].events} : c \in DOMAIN chs}

\* the record of a trigger of `name` on registry reg: with the ids the bucket
\* of name and the "all" bucket hold when the call is made
TriggerCall(op, target, name, args, reg, event) ==
    [Call(op, target, name, NoCb, Undefined, args) EXCEPT
        !.had = IdsOf(Bucket(reg, event)),
        !.hadAll = IdsOf(Bucket(reg, AllName))]

\* the record of a call that removes records: with the ids it removes
RemovalCall(op, target, name, callback, context, after) ==
    [Call(op, target, name, callback, context, <<>>) EXCEPT
        !.gone = IdsIn(channels) \ IdsIn(after)]

NewHandles(oid, name, callback) ==
    IF ReturnsHandle(name, callback)
    THEN {[id |-> maxHashId, self |-> oid, name |-> name]}
    ELSE {}

----------------------------------------------------------------------------
(* Calls on a registry object, reached as bus.channels[c] *)

RegOn(c, name, callback, context, isOnce) ==
    /\ CanCall
    /\ c \in DOMAIN channels
    /\ LET r == On(channels[c], maxHashId, name, callback, context, isOnce)
       IN  /\ channels' = [channels EXCEPT ![c] = r.reg]
           /\ maxHashId' = r.h
    /\ handles' = handles \cup NewHandles(channels[c].oid, name, callback)
    /\ calls' = Append(calls, Call(IF isOnce THEN "once" ELSE "on", c, name,
                                   callback, context, <<>>))
    /\ stack' = Sync(stack, channels')
    /\ UNCHANGED <<idCounter, nextOid, onceCalled, log, raised>>

RegOff(c, name, callback, context) ==
    /\ CanCall
    /\ c \in DOMAIN channels
    /\ channels' = [channels EXCEPT ![c] = Off(@, name, callback, context)]
    /\ calls' = Append(calls, RemovalCall("off", c, name, callback, context, channels'))
    /\ UNCHANGED <<idCounter, maxHashId, nextOid, handles, onceCalled, stack, log, raised>>

\* handle.off(): self.off(name, hashKey)
HandleOff(h) ==
    /\ CanCall
    /\ h \in handles
    /\ channels' = OffObject(channels, h.self, h.name, HashKey(h.id), Undefined)
    /\ calls' = Append(calls, RemovalCall("handle.off", <<>>, h.name, HashKey(h.id),
                                          RegRef(h.self), channels'))
    /\ UNCHANGED <<idCounter, maxHashId, nextOid, handles, onceCalled, stack, log, raised>>

RegTrigger(c, name, args) ==
    /\ CanCall
    /\ c \in DOMAIN channels
    /\ Dispatch(stack, NewFrame(channels[c].oid, TriggerNames(name), args, Len(calls) + 1), channels)
    /\ calls' = Append(calls, TriggerCall("trigger", c, name, args, channels[c], name))
    /\ UNCHANGED <<idCounter, maxHashId, nextOid, handles, raised>>

----------------------------------------------------------------------------
(* The running listener *)

\* the listener returns: the dispatch that called it goes on
Return ==
    /\ stack # <<>>
    /\ Dispatch(SubSeq(stack, 1, Len(stack) - 1), stack[Len(stack)], channels)
    /\ UNCHANGED <<idCounter, maxHashId, nextOid, handles, calls, raised>>

\* (variant: triggerEvents catches what a listener throws and goes on)
ThrowCaught ==
    /\ stack # <<>>
    /\ Len(raised) < MaxErrors
    /\ raised' = Append(raised, Error("listener"))
    /\ Dispatch(SubSeq(stack, 1, Len(stack) - 1), stack[Len(stack)], channels)
    /\ UNCHANGED <<idCounter, maxHashId, nextOid, handles, calls>>

\* the listener throws: the loop of triggerEvents is abandoned and the error
\* reaches the code that called trigger
Throw ==
    /\ stack # <<>>
    /\ Len(raised) < MaxErrors
    /\ stack' = SubSeq(stack, 1, Len(stack) - 1)
    /\ raised' = Append(raised, Error("listener"))
    /\ UNCHANGED <<idCounter, channels, maxHashId, nextOid, handles, onceCalled, log, calls>>


----------------------------------------------------------------------------
(* The bus: the exported channel router *)

\* (variant: only the empty string is refused)
InvalidChannelEmptyOnly(name) == name = EmptyStr

\* name == '' || name == void 0 || name == null
InvalidChannel(name) == name = EmptyStr \/ name = VoidName \/ name = NullName

\* (variant: the channel is read at index 1 of the split)
ChannelPartWrongIndex(name) == Part1(Split(name, Colon))

\* the optional `channel:` prefix: split(ChannelSplitter)[0] and [1]
ChannelPart(name) == Part0(Split(name, Colon))
EventPart(name) == Part1(Split(name, Colon))

\* (variant: the prefix is cut off the name but the channel stays the default)
ParseNoChannel(name) ==
    IF Test(name, Colon)
    THEN [channel |-> DefaultChannel, name |-> EventPart(name)]
    ELSE [channel |-> DefaultChannel, name |-> name]

Parse(name) ==
    IF Test(name, Colon)
    THEN [channel |-> ChannelPart(name), name |-> EventPart(name)]
    ELSE [channel |-> DefaultChannel, name |-> name]

\* (variant: the registry is created without looking for an existing one)
EnsureFresh(chs, name, oid) ==
    [c \in (DOMAIN chs) \cup {name} |-> IF c = name THEN NewRegistry(oid) ELSE chs[c]]

\* the table after addChannel(name), name valid
Ensure(chs, name, oid) ==
    IF name \in DOMAIN chs THEN chs
    ELSE [c \in (DOMAIN chs) \cup {name} |->
            IF c = name THEN NewRegistry(oid) ELSE chs[c]]

\* (variant: the registry is cleared but `delete this.channels[name]` is missing)
WithoutDelete(chs, name) ==
    IF name \in DOMAIN chs THEN [chs EXCEPT ![name] = NewRegistry(@.oid)] ELSE chs

\* the table after removeChannel(name): the registry is cleared by its own
\* off() and the entry deleted
Without(chs, name) == [c \in (DOMAIN chs) \ {name} |-> chs[c]]

AddChannel(name) ==
    /\ CanCall
    /\ calls' = Append(calls, Call("addChannel", <<>>, name, NoCb, Undefined, <<>>))
    /\ IF InvalidChannel(name)
       THEN /\ raised' = Append(raised, Error("addChannel"))
            /\ UNCHANGED <<channels, nextOid>>
       ELSE /\ channels' = Ensure(channels, name, nextOid)
            /\ nextOid' = IF name \in DOMAIN channels THEN nextOid ELSE nextOid + 1
            /\ UNCHANGED raised
    /\ UNCHANGED <<idCounter, maxHashId, handles, onceCalled, stack, log>>

RemoveChannel(name) ==
    /\ CanCall
    /\ calls' = Append(calls, Call("removeChannel", <<>>, name, NoCb, Undefined, <<>>))
    /\ IF InvalidChannel(name)
       THEN /\ raised' = Append(raised, Error("removeChannel"))
            /\ UNCHANGED channels
       ELSE /\ channels' = Without(channels, name)
            /\ UNCHANGED raised
    /\ UNCHANGED <<idCounter, maxHashId, nextOid, handles, onceCalled, stack, log>>

\* bus.on / bus.once (name, callback, context)
BusOn(name, callback, context, isOnce) ==
    LET p == Parse(name)
        chs == Ensure(channels, p.channel, nextOid)
        r == On(chs[p.channel], maxHashId, p.name, callback, OrElse(context, Bus), isOnce)
    IN  /\ CanCall
        /\ calls' = Append(calls, Call(IF isOnce THEN "bus.once" ELSE "bus.on", <<>>,
                                       name, callback, context, <<>>))
        /\ IF InvalidChannel(p.channel)
           THEN /\ raised' = Append(raised, Error("addChannel"))
                /\ UNCHANGED <<channels, maxHashId, nextOid, handles>>
           ELSE /\ channels' = [chs EXCEPT ![p.channel] = r.reg]
                /\ maxHashId' = r.h
                /\ nextOid' = IF p.channel \in DOMAIN channels THEN nextOid ELSE nextOid + 1
                /\ handles' = handles \cup NewHandles(chs[p.channel].oid, p.name, callback)
                /\ UNCHANGED raised
        /\ stack' = Sync(stack, channels')
        /\ UNCHANGED <<idCounter, onceCalled, log>>

\* bus.off(): every channel is removed
BusOffAll ==
    /\ CanCall
    /\ calls' = Append(calls, Call("bus.off()", <<>>, <<>>, NoCb, Undefined, <<>>))
    /\ channels' = <<>>
    /\ UNCHANGED <<idCounter, maxHashId, nextOid, handles, onceCalled, stack, log, raised>>

\* the channel named by '@channel': name.split('@')[1]
AtChannel(name) == Part1(Split(name, At))

\* bus.off(name, cb) with a name
BusOffTable(chs, name, cb) ==
    IF Len(name) > 0 /\ name[1] = At
    THEN IF AtChannel(name) \in DOMAIN chs THEN Without(chs, AtChannel(name)) ELSE chs
    ELSE LET p == Parse(name)
         IN  IF p.channel \in DOMAIN chs
             THEN [chs EXCEPT ![p.channel] = Off(@, p.name, cb, Undefined)]
             ELSE chs

BusOff(name, cb) ==
    /\ CanCall
    /\ calls' = Append(calls, Call("bus.off", <<>>, name, cb, Undefined, <<>>))
    /\ channels' = BusOffTable(channels, name, cb)
    /\ UNCHANGED <<idCounter, maxHashId, nextOid, handles, onceCalled, stack, log, raised>>

\* bus.emit(name, ...args)
Emit(name, args) ==
    LET p == Parse(name)
    IN  /\ CanCall
        /\ calls' = Append(calls, IF p.channel \in DOMAIN channels
                                   THEN TriggerCall("emit", <<>>, name, args,
                                                    channels[p.channel], p.name)
                                   ELSE Call("emit", <<>>, name, NoCb, Undefined, args))
        /\ IF p.channel \in DOMAIN channels
           THEN Dispatch(stack, NewFrame(channels[p.channel].oid, TriggerNames(p.name), args,
                                  Len(calls) + 1),
                         channels)
           ELSE UNCHANGED <<channels, onceCalled, stack, log>>
        /\ UNCHANGED <<idCounter, maxHashId, nextOid, handles, raised>>

----------------------------------------------------------------------------
(* listenTo, listenToOnce and stopListening, called on the registry objects *)

\* obj._listenId || (obj._listenId = _.uniqueId('l'))
ListenIdOf(src, counter) == IF src.listenId # 0 THEN src.listenId ELSE counter + 1

\* the table after the source was given its _listenId and
\* `listeningTo[id] = obj` was done on the object in channel a
Recorded(chs, a, src, id) ==
    LET withId == [chs EXCEPT ![src].listenId = id]
    IN  [withId EXCEPT ![a].listens = TRUE,
                       ![a].listeningTo = SetBucket(@, id, chs[src].oid)]

\* this.listenTo / this.listenToOnce (obj, name, callback), this and obj
\* being the registry objects of the channels a and src
ListenTo(a, src, name, callback, isOnce) ==
    LET id == ListenIdOf(channels[src], idCounter)
        chs == Recorded(channels, a, src, id)
        r == On(chs[src], maxHashId, name, callback, RegRef(channels[a].oid), isOnce)
    IN  /\ CanCall
        /\ a \in DOMAIN channels
        /\ src \in DOMAIN channels
        /\ channels' = [chs EXCEPT ![src] = r.reg]
        /\ maxHashId' = r.h
        /\ idCounter' = IF channels[src].listenId # 0 THEN idCounter ELSE idCounter + 1
        /\ stack' = Sync(stack, channels')
        /\ calls' = Append(calls, Call(IF isOnce THEN "listenToOnce" ELSE "listenTo", a,
                                       name, callback, Undefined, <<src>>))
        /\ UNCHANGED <<nextOid, handles, onceCalled, log, raised>>

\* the table stopListening loops over: the one source given, under its
\* _listenId (0: the key undefined), or every source recorded
Sources(chs, a, obj) ==
    IF obj # <<>>
    THEN [id \in {chs[obj[1]].listenId} |-> chs[obj[1]].oid]
    ELSE chs[a].listeningTo

\* _.isEmpty(obj._events)
NoEvents(reg) == ~reg.hasEvents \/ DOMAIN reg.events = {}

\* (variant: obj.off(name, callback), the context left out)
StopOneNoContext(chs, a, id, oid, name, callback, remove) ==
    LET off == OffObject(chs, oid, name, callback, Undefined)
    IN  IF remove \/ NoEvents(ObjectOf(off, oid))
        THEN [off EXCEPT ![a].listeningTo = [k \in (DOMAIN @) \ {id} |-> @[k]]]
        ELSE off

\* one turn of the loop: obj.off(name, callback, this), then the entry is
\* deleted when nothing was named or the source has no bucket left
StopOne(chs, a, id, oid, name, callback, remove) ==
    LET off == OffObject(chs, oid, name, callback, RegRef(chs[a].oid))
    IN  IF remove \/ NoEvents(ObjectOf(off, oid))
        THEN [off EXCEPT ![a].listeningTo = [k \in (DOMAIN @) \ {id} |-> @[k]]]
        ELSE off

\* the loop over the table (its turns touch different objects and different
\* entries, so their order does not show)
RECURSIVE StopEach(_, _, _, _, _, _)
StopEach(chs, a, todo, name, callback, remove) ==
    IF DOMAIN todo = {} THEN chs
    ELSE LET id == CHOOSE k \in DOMAIN todo : \A m \in DOMAIN todo : k <= m
         IN  StopEach(StopOne(chs, a, id, todo[id], name, callback, remove), a,
                      [k \in (DOMAIN todo) \ {id} |-> todo[k]], name, callback, remove)

\* the table after this.stopListening(obj, name, callback)
StopTable(chs, a, obj, name, callback) ==
    IF ~chs[a].listens THEN chs
    ELSE StopEach(chs, a, Sources(chs, a, obj), name, callback,
                  ~TruthyStr(name) /\ ~TruthyCb(callback))

StopListening(a, obj, name, callback) ==
    /\ CanCall
    /\ a \in DOMAIN channels
    /\ obj # <<>> => obj[1] \in DOMAIN channels
    /\ channels' = StopTable(channels, a, obj, name, callback)
    /\ calls' = Append(calls, [RemovalCall("stopListening", a, name, callback, Undefined,
                                           channels') EXCEPT !.args = obj])
    /\ UNCHANGED <<idCounter, maxHashId, nextOid, handles, onceCalled, stack, log, raised>>

----------------------------------------------------------------------------
(* Specifications *)

\* The registry: the calls made on one registry object, bus.channels.global,
\* from the state that bus.addChannel("global") leaves.
RegInit ==
    /\ channels = Ensure(<<>>, DefaultChannel, 1)
    /\ maxHashId = 1000
    /\ nextOid = 2
    /\ idCounter = 0
    /\ handles = {}
    /\ onceCalled = {}
    /\ stack = <<>>
    /\ log = <<>>
    /\ calls = <<[op |-> "addChannel", target |-> <<>>, name |-> DefaultChannel,
                  callback |-> NoCb, context |-> Undefined, args |-> <<>>,
                  depth |-> 0, at |-> 0, h |-> 1000,
                  gone |-> {}, had |-> <<>>, hadAll |-> <<>>]>>
    /\ raised = <<>>

Next ==
    \/ \E in \in OnInputs : RegOn(DefaultChannel, in[1], in[2], in[3], in[4])
    \/ \E in \in OffInputs : RegOff(DefaultChannel, in[1], in[2], in[3])
    \/ \E h \in handles : HandleOff(h)
    \/ \E in \in TriggerInputs : RegTrigger(DefaultChannel, in[1], in[2])
    \/ Return
    \/ Throw

Spec == RegInit /\ [][Next]_vars

\* The bus: the calls made on the exported router, from the module's load.
BusNext ==
    \/ \E c \in ChannelInputs : AddChannel(c)
    \/ \E c \in ChannelInputs : RemoveChannel(c)
    \/ \E in \in BusOnInputs : BusOn(in[1], in[2], in[3], in[4])
    \/ \E in \in BusOffInputs : BusOff(in[1], in[2])
    \/ BusOffAll
    \/ \E in \in EmitInputs : Emit(in[1], in[2])
    \/ \E o \in BOOLEAN : RegOn(ChanA, Evt, NoCb, Undefined, o)
    \/ Return
    \/ Throw

BusSpec == Init /\ [][BusNext]_vars

\* The channel table: channels added and removed by name, next to the calls
\* that create channels and registrations and the calls that remove them.
ChannelNext ==
    \/ \E c \in ChannelNameInputs : AddChannel(c)
    \/ \E c \in ChannelNameInputs : RemoveChannel(c)
    \/ \E in \in ChannelOnInputs : BusOn(in[1], in[2], in[3], in[4])
    \/ BusOff(ChanAEvt, NoCb)
    \/ BusOffAll
    \/ RegOff(ChanA, EmptyStr, NoCb, Undefined)
    \/ Emit(ChanAEvt, <<ArgX>>)
    \/ Return

ChannelSpec == Init /\ [][ChannelNext]_vars

\* The dispatch: listeners registered through the bus in the default channel,
\* its registry triggered, and the calls listeners make while they run.
DispatchNext ==
    \/ \E in \in DispatchOnInputs : BusOn(in[1], in[2], in[3], in[4])
    \/ \E in \in DispatchOffInputs : RegOff(DefaultChannel, in[1], in[2], in[3])
    \/ \E h \in handles : HandleOff(h)
    \/ \E in \in DispatchTriggerInputs : RegTrigger(DefaultChannel, in[1], in[2])
    \/ Return
    \/ Throw

DispatchSpec == Init /\ [][DispatchNext]_vars

\* Listening: the registry objects of two channels subscribe to each other
\* and to themselves with listenTo and stop with stopListening.
ListenNext ==
    \/ \E in \in ListenOnInputs : BusOn(in[1], in[2], in[3], in[4])
    \/ \E in \in ListenToInputs : ListenTo(in[1], in[2], in[3], in[4], in[5])
    \/ \E in \in StopInputs : StopListening(in[1], in[2][1], in[2][2], in[2][3])
    \/ RegTrigger(DefaultChannel, Evt, <<>>)
    \/ Return

ListenSpec == Init /\ [][ListenNext]_vars

\* The bus called with names that hold two colons.
NameNext ==
    \/ \E in \in NameOnInputs : BusOn(in[1], in[2], in[3], in[4])
    \/ \E in \in NameOffInputs : BusOff(in[1], in[2])
    \/ \E in \in NameEmitInputs : Emit(in[1], in[2])
    \/ Return

NameSpec == Init /\ [][NameNext]_vars

----------------------------------------------------------------------------
(* Reading the histories *)

LastCall == calls[Len(calls)]

\* no dispatch is running and no error was raised
Quiet == stack = <<>> /\ raised = <<>>

IsRegistration(c) == c.op \in {"on", "once"} /\ c.callback.kind = "fn"

\* the event names a name argument stands for, as the interface documents it
NamesIn(name) == IF name = EvtAll THEN <<Evt, AllName>> ELSE <<name>>

\* the call that created the record with handle id `id`, and the bucket name
\* it was registered under
CreatorOf(id) ==
    CHOOSE r \in 1..Len(calls) :
        /\ IsRegistration(calls[r])
        /\ calls[r].h <= id
        /\ id < calls[r].h + Len(NamesIn(calls[r].name))

NameOfRecord(id) ==
    NamesIn(calls[CreatorOf(id)].name)[id - calls[CreatorOf(id)].h + 1]

\* what the user functions saw, in order
Seen == [i \in 1..Len(log) |-> [fn |-> log[i].fn, args |-> log[i].args]]

\* the number of listener records a registry holds
Records(reg) ==
    UNION {{<<n, i>> : i \in 1..Len(reg.events[n])} : n \in DOMAIN reg.events}

----------------------------------------------------------------------------
(* C1 *)

\* the history is: N calls of on(name, fn) for one single name, then one
\* trigger(name, args), all from the top level, and the trigger has returned
OnsThenTrigger ==
    /\ Len(calls) >= 3
    /\ LastCall.op = "trigger"
    /\ ~Test(LastCall.name, Space)
    /\ \A i \in 2..(Len(calls) - 1) :
         /\ calls[i].op = "on"
         /\ calls[i].callback.kind = "fn"
         /\ calls[i].name = LastCall.name
    /\ \A i \in 1..Len(calls) : calls[i].depth = 0
    /\ Quiet

ExpectedC1 ==
    [i \in 1..(Len(calls) - 2) |-> [fn |-> calls[i + 1].callback.fn, args |-> LastCall.args]]

\* C1 as stated: N listeners registered with on for the same event name (any
\* event name), the event triggered once: each of the N callbacks is called
\* exactly once, in registration order, with exactly the trigger's arguments.
C1_AnyEventName == OnsThenTrigger => Seen = ExpectedC1

\* C1, amended: the same for every event name other than "all", when every
\* listener returns normally: N listeners registered with on for that name and
\* one trigger of it call each of the N callbacks exactly once, in registration
\* order, each with exactly the trigger's arguments.
C1_RegistrationOrder ==
    (OnsThenTrigger /\ LastCall.name # AllName) => Seen = ExpectedC1

\* two different listeners on "evt", triggered with one argument, both called
C1_Witness ==
    /\ OnsThenTrigger
    /\ Len(calls) = 4
    /\ LastCall.name = Evt
    /\ LastCall.args = <<ArgX>>
    /\ calls[2].callback = Fn("f")
    /\ calls[3].callback = Fn("g")
    /\ Len(log) = 2

----------------------------------------------------------------------------
(* C2 *)

\* C2: the original callback of a once registration (one record, one event
\* name) is called at most once in the whole history, whatever triggers are
\* made, reentrant ones and a dispatch that meets the record twice included.
C2_OnceAtMostOnce ==
    \A i, j \in 1..Len(log) :
        (log[i].once /\ log[i].id = log[j].id) => i = j

\* once("all", f) then trigger("all"): the dispatch meets the record in the
\* event's array and in the "all" array, and f has been called one time
C2_Witness ==
    /\ Len(calls) >= 3
    /\ calls[2].op = "once" /\ calls[2].name = AllName /\ calls[2].callback.kind = "fn"
    /\ calls[3].op = "trigger" /\ calls[3].name = AllName
    /\ stack = <<>>
    /\ Len(log) = 1
    /\ log[1].once

----------------------------------------------------------------------------
(* C3 *)

\* the step is a call off(name, fn) with one event name and no context
OffByFunction ==
    /\ Len(calls') = Len(calls) + 1
    /\ LET c == calls'[Len(calls')]
       IN  /\ c.op = "off"
           /\ c.name # EmptyStr /\ ~Test(c.name, Space)
           /\ c.callback.kind = "fn"
           /\ c.context = Undefined

\* the record's callback is fn, or it is a once guard around fn
Matches(ev, fn) ==
    \/ ev.callback = fn
    \/ ev.callback.kind = "once" /\ ev.callback.fn = fn.fn

OffByFunctionEffect ==
    LET c == calls'[Len(calls')]
        before == channels[c.target]
        after == channels'[c.target]
    IN  /\ DOMAIN channels' = DOMAIN channels
        /\ \A ch \in DOMAIN channels : ch # c.target => channels'[ch] = channels[ch]
        /\ Bucket(after, c.name) =
              SelectSeq(Bucket(before, c.name), LAMBDA ev : ~Matches(ev, c.callback))
        /\ \A n \in (DOMAIN before.events) \cup (DOMAIN after.events) :
              n # c.name => Bucket(after, n) = Bucket(before, n)

\* C3: off(name, callback), one name, a function, no context, removes from
\* the bucket of name exactly the records whose callback, or once-wrapped
\* original, is that function; the other records of the bucket stay in their
\* order and every other bucket is unchanged.
C3_OffByCallback == [][OffByFunction => OffByFunctionEffect]_vars

\* once("evt", f), on("evt", g), off("evt", f): only g's record is left
C3_Witness ==
    /\ Len(calls) = 4
    /\ calls[2].op = "once" /\ calls[2].name = Evt /\ calls[2].callback = Fn("f")
    /\ calls[3].op = "on" /\ calls[3].name = Evt /\ calls[3].callback = Fn("g")
    /\ calls[4].op = "off" /\ calls[4].name = Evt /\ calls[4].callback = Fn("f")
    /\ calls[4].context = Undefined
    /\ Len(Bucket(channels[DefaultChannel], Evt)) = 1
    /\ Bucket(channels[DefaultChannel], Evt)[1].callback = Fn("g")

----------------------------------------------------------------------------
(* C4 *)

HandleOffStep ==
    /\ Len(calls') = Len(calls) + 1
    /\ calls'[Len(calls')].op = "handle.off"

HandleOffEffect ==
    LET id == calls'[Len(calls')].callback.wid
    IN  /\ DOMAIN channels' = DOMAIN channels
        /\ \A ch \in DOMAIN channels :
             /\ \A n \in (DOMAIN channels[ch].events) \cup (DOMAIN channels'[ch].events) :
                  Bucket(channels'[ch], n) =
                      SelectSeq(Bucket(channels[ch], n), LAMBDA ev : ev.id # id)
             /\ Cardinality(Records(channels'[ch])) >= Cardinality(Records(channels[ch])) - 1
        /\ (\A ch \in DOMAIN channels : \A n \in DOMAIN channels[ch].events :
               \A k \in 1..Len(channels[ch].events[n]) : channels[ch].events[n][k].id # id)
             => \A ch \in DOMAIN channels :
                    /\ channels'[ch].hasEvents = channels[ch].hasEvents
                    /\ channels'[ch].events = channels[ch].events

\* C4: the off() of a handle removes the one record its on call created and
\* no other record, also when other records of the bucket have the same
\* callback and context; when that record is gone it changes nothing.
C4_HandleOff == [][HandleOffStep => HandleOffEffect]_vars

\* on("evt", f) twice, then the first handle's off(): the second record stays
C4_Witness ==
    /\ Len(calls) = 4
    /\ calls[2].op = "on" /\ calls[3].op = "on"
    /\ calls[2].name = Evt /\ calls[3].name = Evt
    /\ calls[2].callback = Fn("f") /\ calls[3].callback = Fn("f")
    /\ calls[2].context = calls[3].context
    /\ calls[4].op = "handle.off" /\ calls[4].callback.wid = calls[2].h
    /\ Len(Bucket(channels[DefaultChannel], Evt)) = 1
    /\ Bucket(channels[DefaultChannel], Evt)[1].id = calls[3].h

----------------------------------------------------------------------------
(* C5 *)

\* the channel a bus name addresses, as the interface documents it: the text
\* before the colon, the default channel when there is no colon
NamedChannel(name) ==
    IF \E i \in 1..Len(name) : name[i] = ":"
    THEN SubSeq(name, 1, (CHOOSE i \in 1..Len(name) :
                            name[i] = ":" /\ \A j \in 1..(i - 1) : name[j] # ":") - 1)
    ELSE <<"global">>

IsBusRegistration(c) == c.op \in {"bus.on", "bus.once"} /\ c.callback.kind = "fn"

\* the bus.on / bus.once call that created the record with handle id `id`
BusCreatorOf(id) ==
    CHOOSE r \in 1..Len(calls) : IsBusRegistration(calls[r]) /\ calls[r].h = id

\* C5: channels are isolated: every listener call made for an emit is the
\* call of a listener that was registered in the channel the emit names;
\* emit("chanA:evt") never reaches a listener of "evt" in the default channel
\* and emit("evt") reaches the default channel only.
C5_ChannelIsolation ==
    \A i \in 1..Len(log) :
        /\ calls[log[i].call].op = "emit"
        /\ \E r \in 1..Len(calls) : IsBusRegistration(calls[r]) /\ calls[r].h = log[i].id
        /\ NamedChannel(calls[BusCreatorOf(log[i].id)].name)
              = NamedChannel(calls[log[i].call].name)

\* "evt" has a listener in the default channel and one in chanA, and
\* emit("chanA:evt") has returned after one listener call
C5_Witness ==
    /\ Len(calls) >= 3
    /\ LastCall.op = "emit" /\ LastCall.name = ChanAEvt
    /\ stack = <<>>
    /\ {DefaultChannel, ChanA} \subseteq DOMAIN channels
    /\ Bucket(channels[DefaultChannel], Evt) # <<>>
    /\ Bucket(channels[ChanA], Evt) # <<>>
    /\ Len(log) = 1

----------------------------------------------------------------------------
(* C6 *)

\* the history is: registrations with on/once from the top level, then one
\* trigger of a single event name, which has returned
RegistrationsThenTrigger ==
    /\ Len(calls) >= 3
    /\ LastCall.op = "trigger"
    /\ ~Test(LastCall.name, Space)
    /\ \A i \in 2..(Len(calls) - 1) : IsRegistration(calls[i])
    /\ \A i \in 1..Len(calls) : calls[i].depth = 0
    /\ Quiet

\* the handle ids of the records registered on "all", in registration order
AllIds ==
    LET ids == {id \in 1000..(maxHashId - 1) : NameOfRecord(id) = AllName}
    IN  [k \in 1..Cardinality(ids) |->
            CHOOSE id \in ids : Cardinality({x \in ids : x < id}) = k - 1]

\* the calls made for records registered on "all", in order
AllCalls == SelectSeq(log, LAMBDA e : NameOfRecord(e.id) = AllName)

NamePrepended(e) == e.args = <<calls[e.call].name>> \o calls[e.call].args

SingleName(e) == ~Test(calls[e.call].name, Space)

----------------------------------------------------------------------------
(* C7 *)

IsFullOff(c) ==
    c.op = "off" /\ c.name = EmptyStr /\ c.callback.kind = "none" /\ c.context = Undefined

\* C7: after off() with no arguments the registry holds no listener record,
\* and a trigger made after it calls no listener unless an on/once call was
\* made in between.
C7_FullReset ==
    /\ IsFullOff(LastCall) => Records(channels[LastCall.target]) = {}
    /\ \A i \in 1..Len(log) : \A j \in 1..(log[i].call - 1) :
          IsFullOff(calls[j]) =>
              \E r \in (j + 1)..(log[i].call - 1) : calls[r].op \in {"on", "once"}

\* on(name, fn), off(), trigger(name): nothing was called
C7_Witness ==
    /\ Len(calls) = 4
    /\ IsRegistration(calls[2])
    /\ IsFullOff(calls[3])
    /\ calls[4].op = "trigger" /\ calls[4].name = calls[2].name
    /\ stack = <<>>
    /\ log = <<>>

----------------------------------------------------------------------------
(* C8 *)

\* the call tears channel ch down
TearsDown(c, ch) ==
    \/ c.op = "removeChannel" /\ c.name = ch
    \/ c.op = "bus.off" /\ c.name = <<"@">> \o ch
    \/ c.op = "bus.off()"

\* C8: after removeChannel(name), bus.off("@name") or bus.off() the channel is
\* not in the channel table, and an emit to it made later calls none of the
\* listeners registered in it before the teardown.
C8_Teardown ==
    /\ Len(calls) > 0 =>
          \A ch \in {DefaultChannel, ChanA} :
              TearsDown(LastCall, ch) => ch \notin DOMAIN channels
    /\ \A i \in 1..Len(log) : \A j \in 1..(log[i].call - 1) :
          TearsDown(calls[j], NamedChannel(calls[log[i].call].name)) =>
              log[i].id >= calls[j].h

\* a listener in chanA, chanA torn down, a new listener in chanA, an emit to
\* chanA: only the new listener was called
C8_Witness ==
    /\ Len(calls) = 4
    /\ IsBusRegistration(calls[1]) /\ calls[1].name = ChanAEvt
    /\ TearsDown(calls[2], ChanA)
    /\ IsBusRegistration(calls[3]) /\ calls[3].name = ChanAEvt
    /\ calls[4].op = "emit" /\ calls[4].name = ChanAEvt
    /\ stack = <<>>
    /\ Len(log) = 1
    /\ log[1].id = calls[3].h

----------------------------------------------------------------------------
(* C9 *)

EmitToMissingChannel ==
    /\ Len(calls') = Len(calls) + 1
    /\ calls'[Len(calls')].op = "emit"
    /\ NamedChannel(calls'[Len(calls')].name) \notin DOMAIN channels

----------------------------------------------------------------------------
(* C10 *)

\* the step is an on/once call, on a registry or on the bus, without callback
NoCallbackStep ==
    /\ Len(calls') = Len(calls) + 1
    /\ calls'[Len(calls')].op \in {"on", "once", "bus.on", "bus.once"}
    /\ calls'[Len(calls')].callback.kind = "none"

\* C10 as stated, its part about the state: on or once without a callback, on
\* a registry or on the bus, leaves all state unchanged: no listener record,
\* no bucket and no channel is added.  (Its other part, that no error is
\* raised, fails as well when the name's channel prefix is empty.)
C10_NothingChanges ==
    [][NoCallbackStep =>
         UNCHANGED <<channels, maxHashId, nextOid, handles, onceCalled, stack, log>>]_vars

NoCallbackEffect ==
    LET c == calls'[Len(calls')]
        onBus == c.op \in {"bus.on", "bus.once"}
        noChannel == onBus /\ Len(c.name) > 0 /\ c.name[1] = ":"
    IN  /\ UNCHANGED <<maxHashId, handles, onceCalled, stack, log>>
        /\ \A ch \in DOMAIN channels :
              ch \in DOMAIN channels' /\ channels'[ch] = channels[ch]
        /\ \A ch \in (DOMAIN channels') \ (DOMAIN channels) :
              /\ onBus /\ ~noChannel
              /\ ch = NamedChannel(c.name)
              /\ Records(channels'[ch]) = {}
        /\ (onBus /\ ~noChannel) => NamedChannel(c.name) \in DOMAIN channels'
        /\ IF noChannel
           THEN Len(raised') = Len(raised) + 1 /\ channels' = channels
           ELSE raised' = raised

\* C10, amended: on or once without a callback adds no listener record and no
\* bucket and changes no existing registry, on a registry and on the bus; on a
\* registry it changes nothing and raises no error; on the bus the channel the
\* name addresses is still created (empty) when it is missing, and the call
\* raises the addChannel error, changing nothing, when the name's channel
\* prefix is empty.
C10_NoCallback == [][NoCallbackStep => NoCallbackEffect]_vars

\* bus.on("chanA:evt") without callback as the first call: chanA now exists
\* and holds no record
C10_Witness ==
    /\ Len(calls) = 1
    /\ LastCall.op = "bus.on" /\ LastCall.name = ChanAEvt
    /\ LastCall.callback.kind = "none"
    /\ ChanA \in DOMAIN channels
    /\ Records(channels[ChanA]) = {}
    /\ raised = <<>>

----------------------------------------------------------------------------
(* C11 *)

\* the event a bus name addresses, as the interface documents it: the whole
\* text after the first colon, the name itself when there is no colon
NamedEvent(name) ==
    IF \E i \in 1..Len(name) : name[i] = ":"
    THEN SubSeq(name, (CHOOSE i \in 1..Len(name) :
                          name[i] = ":" /\ \A j \in 1..(i - 1) : name[j] # ":") + 1,
                Len(name))
    ELSE name

\* C11: a compound name is split at its first colon only: the channel is the
\* text before it and the event name the whole remainder, so every listener
\* call made for an emit is the call of a listener registered for the same
\* channel and the same remainder; a listener registered for "chanA:evt:c"
\* is not called by emit("chanA:evt:d").
C11_SplitAtFirstColon ==
    \A i \in 1..Len(log) :
        LET registered == calls[BusCreatorOf(log[i].id)].name
            emitted == calls[log[i].call].name
        IN  /\ NamedChannel(registered) = NamedChannel(emitted)
            /\ NamedEvent(registered) = NamedEvent(emitted)

----------------------------------------------------------------------------
(* C12 *)

\* the step is addChannel(name) for a channel that is in the table
AddExistingStep ==
    /\ Len(calls') = Len(calls) + 1
    /\ calls'[Len(calls')].op = "addChannel"
    /\ calls'[Len(calls')].name \in DOMAIN channels

\* the history is: registrations with bus.on / bus.once for "chanA:evt" and
\* calls of addChannel("chanA"), in any order, then one emit("chanA:evt"),
\* which has returned
RegistrationsAddsThenEmit ==
    /\ Len(calls) >= 2
    /\ LastCall.op = "emit" /\ LastCall.name = <<"chanA", ":", "evt">>
    /\ \A i \in 1..(Len(calls) - 1) :
          \/ IsBusRegistration(calls[i]) /\ calls[i].name = <<"chanA", ":", "evt">>
          \/ calls[i].op = "addChannel" /\ calls[i].name = <<"chanA">>
    /\ Quiet

\* the ids of the registrations of the history, in order
RegisteredIds ==
    LET regs == SelectSeq(SubSeq(calls, 1, Len(calls) - 1), IsBusRegistration)
    IN  [k \in 1..Len(regs) |-> regs[k].h]

\* C12: addChannel(name) for a channel that exists leaves the channel table
\* as it is, the channel's registry and its listeners included, and the
\* listeners registered in the channel before the call are called by an emit
\* made after it.
C12_AddChannelIdempotent ==
    /\ [][AddExistingStep => UNCHANGED <<channels, maxHashId, nextOid, handles,
                                          onceCalled, stack, log, raised>>]_vars
    /\ [](RegistrationsAddsThenEmit => IdsOf(log) = RegisteredIds)

\* bus.on("chanA:evt", f), addChannel("chanA"), emit("chanA:evt"): f was called
C12_Witness ==
    /\ RegistrationsAddsThenEmit
    /\ Len(calls) = 3
    /\ IsBusRegistration(calls[1])
    /\ calls[2].op = "addChannel"
    /\ Len(log) = 1
    /\ log[1].id = calls[1].h

----------------------------------------------------------------------------
(* C13 *)

\* the step is addChannel or removeChannel with the empty string, undefined
\* (the argument is absent) or null for the name
NoNameStep ==
    /\ Len(calls') = Len(calls) + 1
    /\ calls'[Len(calls')].op \in {"addChannel", "removeChannel"}
    /\ calls'[Len(calls')].name \in {<<>>, <<"void 0">>, <<"null value">>}

\* C13: addChannel and removeChannel with an empty, absent or null name
\* raise an error and leave the channel table and every registry unchanged.
C13_NoChannelName ==
    [][NoNameStep =>
         /\ Len(raised') = Len(raised) + 1
         /\ raised'[Len(raised')].what = calls'[Len(calls')].op
         /\ UNCHANGED <<channels, maxHashId, nextOid, handles, onceCalled, stack, log>>]_vars

\* a channel with a listener, then addChannel(undefined) and
\* removeChannel(null): two errors, the table still holds that channel only
C13_Witness ==
    /\ Len(calls) = 3
    /\ IsBusRegistration(calls[1])
    /\ calls[2].op = "addChannel" /\ calls[2].name = VoidName
    /\ calls[3].op = "removeChannel" /\ calls[3].name = NullName
    /\ Len(raised) = 2
    /\ DOMAIN channels = {ChanA}
    /\ Records(channels[ChanA]) # {}

----------------------------------------------------------------------------
(* C14 *)

\* the places of the listener records of the table: <<channel, name, index>>
Places(chs) ==
    UNION {UNION {{<<c, n, k>> : k \in 1..Len(chs[c].events[n])} :
                    n \in DOMAIN chs[c].events} : c \in DOMAIN chs}

\* no two records of the table carry the same id, and every id in use (by a
\* record, a handle or a dispatch) was issued before the counter's value
IdsDistinct ==
    /\ \A p, q \in Places(channels) :
          channels[p[1]].events[p[2]][p[3]].id = channels[q[1]].events[q[2]][q[3]].id
              => p = q
    /\ \A id \in IdsIn(channels) : id < maxHashId
    /\ \A h \in handles : h.id < maxHashId
    /\ \A i \in 1..Len(log) : log[i].id < maxHashId

\* the counter never goes back, and the records a step creates carry exactly
\* the ids the step issues
IdsIssued ==
    /\ maxHashId' >= maxHashId
    /\ {id \in IdsIn(channels') : id >= maxHashId} = maxHashId..(maxHashId' - 1)
    /\ (\/ Len(calls') = Len(calls)
        \/ calls'[Len(calls')].op \in {"off", "bus.off", "bus.off()", "removeChannel",
                                       "addChannel", "emit"})
          => maxHashId' = maxHashId

\* C14: handle ids are unique: no two listener records ever created, in
\* whatever registry or channel, carry the same id; the ids come from one
\* counter that only grows and that off, removeChannel and the full reset
\* leave alone.
C14_UniqueIds == []IdsDistinct /\ [][IdsIssued]_vars

\* a record in chanA, the channel removed, then a registration with two names
\* in a new chanA: the ids go on from the counter, 1001 and 1002
C14_Witness ==
    /\ Len(calls) = 3
    /\ IsBusRegistration(calls[1]) /\ calls[1].h = 1000
    /\ TearsDown(calls[2], ChanA)
    /\ calls[3].op = "bus.on" /\ calls[3].name = ChanAEvtAll
    /\ ChanA \in DOMAIN channels
    /\ IdsIn(channels) = {1001, 1002}
    /\ maxHashId = 1003

----------------------------------------------------------------------------
(* Reading the history of a dispatch *)

\* the listener call (index in log) that was running, at the depth of call k,
\* when call k was made: the listener that made the call
Runner(k) ==
    CHOOSE x \in 1..calls[k].at :
        /\ log[x].depth = calls[k].depth
        /\ \A y \in (x + 1)..calls[k].at : log[y].depth # calls[k].depth

\* the trigger call t has returned or was abandoned
Finished(t) == \A f \in 1..Len(stack) : stack[f].call # t

\* call k was made while the trigger call t was running
During(t, k) ==
    /\ k > t
    /\ \A m \in (t + 1)..k : calls[m].depth > calls[t].depth

\* the event name the record with handle id `id` was registered for
EventOfRecord(id) == NamedEvent(calls[BusCreatorOf(id)].name)

\* the ids of the listener calls trigger call t made for the bucket b, in order
CalledFor(t, b) ==
    IdsOf(SelectSeq(log, LAMBDA e : e.call = t /\ e.bucket = b))

----------------------------------------------------------------------------
(* C15 *)

\* call j, made by a listener that a trigger of E called for E's bucket,
\* removes the record r, a listener of E registered after that listener and
\* not yet called by that trigger
RemovesLater(j, r) ==
    /\ calls[j].op \in {"off", "handle.off"}
    /\ calls[j].depth >= 1
    /\ r \in calls[j].gone
    /\ log[Runner(j)].bucket = calls[log[Runner(j)].call].name
    /\ EventOfRecord(r) = calls[log[Runner(j)].call].name
    /\ r > log[Runner(j)].id
    /\ \A y \in 1..calls[j].at : ~(log[y].call = log[Runner(j)].call /\ log[y].id = r)

\* C15 as stated: a listener called during a trigger of E removes, with off
\* or a handle, a listener of E registered after it and not yet called in
\* this dispatch: the dispatch in flight does not call the removed listener.
C15_RemovedIsSkipped ==
    \A j \in 1..Len(calls) : \A r \in calls[j].gone :
        RemovesLater(j, r) =>
            \A y \in 1..Len(log) : ~(log[y].call = log[Runner(j)].call /\ log[y].id = r)

\* C15, amended: such a listener, when it was in E's bucket as the trigger
\* began, is not skipped: the dispatch in flight still calls it, once,
\* unless a listener throws before; the removal holds for the triggers begun
\* after it, none of which calls the removed listener.
C15_RemovedStillCalled ==
    \A j \in 1..Len(calls) : \A r \in calls[j].gone :
        RemovesLater(j, r) =>
            LET t == log[Runner(j)].call
            IN  /\ (/\ \E k \in 1..Len(calls[t].had) : calls[t].had[k] = r
                     /\ Finished(t)
                     /\ raised = <<>>)
                      => Cardinality({y \in (calls[j].at + 1)..Len(log) :
                                        log[y].call = t /\ log[y].id = r}) = 1
                /\ \A y \in 1..Len(log) : log[y].id = r => log[y].call < j

\* on("evt", f), on("evt", g), trigger("evt"): f, while it runs, removes g's
\* record; the trigger has returned and g was called after f
C15_Witness ==
    /\ Len(calls) = 4
    /\ calls[3].op = "trigger"
    /\ RemovesLater(4, calls[2].h)
    /\ stack = <<>>
    /\ raised = <<>>
    /\ IdsOf(log) = <<calls[1].h, calls[2].h>>
    /\ Records(channels[DefaultChannel]) = {<<Evt, 1>>}

----------------------------------------------------------------------------
(* C16 *)

\* trigger call t is the trigger of one event name other than "all"
SingleTrigger(t) ==
    /\ calls[t].op = "trigger"
    /\ calls[t].name # <<"all">>
    /\ \A i \in 1..Len(calls[t].name) : calls[t].name[i] # " "

\* the listeners made on, once and off calls only while trigger call t ran
OnlyRegistryCalls(t) ==
    \A k \in (t + 1)..Len(calls) :
        During(t, k) =>
            calls[k].op \in {"on", "once", "bus.on", "bus.once", "off", "handle.off"}

\* trigger call t has returned, and no listener threw
Completed(t) == Finished(t) /\ raised = <<>>

\* C16: for a trigger of an event E other than "all", the on, once and off
\* calls that listeners make while the dispatch runs neither prevent a call
\* nor cause a second one: the dispatch calls the records that were in E's
\* bucket when it began, each exactly once and in order, once listeners that
\* remove themselves included, and no record added meanwhile.
C16_StartingRecordsOnce ==
    \A t \in 1..Len(calls) :
        (SingleTrigger(t) /\ Completed(t) /\ OnlyRegistryCalls(t))
            => CalledFor(t, calls[t].name) = calls[t].had

\* on("evt", f), once("evt", g), trigger("evt"): f, while it runs, registers
\* one more listener for "evt"; the trigger called f and g and nothing else
C16_Witness ==
    /\ Len(calls) = 4
    /\ calls[2].op = "bus.once" /\ calls[2].name = Evt
    /\ SingleTrigger(3)
    /\ IsBusRegistration(calls[4]) /\ calls[4].name = Evt
    /\ calls[4].depth = 1 /\ calls[4].at = 1
    /\ Completed(3)
    /\ IdsOf(log) = <<calls[1].h, calls[2].h>>
    /\ Len(Bucket(channels[DefaultChannel], Evt)) = 2

----------------------------------------------------------------------------
(* C20 *)

\* within trigger call t, every call for E's bucket comes before every call
\* for the "all" bucket
EventBeforeAll(t) ==
    \A x, y \in 1..Len(log) :
        (/\ log[x].call = t /\ log[x].bucket = calls[t].name
         /\ log[y].call = t /\ log[y].bucket = <<"all">>) => x < y

\* call k, made while trigger call t ran, has an off look at the "all" bucket
TouchesAll(k) ==
    /\ calls[k].op \in {"off", "handle.off"}
    /\ calls[k].name \in {<<"all">>, <<>>}

\* the ids of the registrations for "all" that listeners of E made while
\* trigger call t ran, the "all" bucket existing when t began and no off
\* having looked at it since
AddedInPlace(t) ==
    LET added == {k \in (t + 1)..Len(calls) :
                    /\ During(t, k)
                    /\ IsBusRegistration(calls[k])
                    /\ NamedEvent(calls[k].name) = <<"all">>
                    /\ log[Runner(k)].call = t
                    /\ log[Runner(k)].bucket = calls[t].name
                    /\ \A m \in (t + 1)..(k - 1) : ~TouchesAll(m)}
    IN  IF calls[t].hadAll = <<>> THEN <<>>
        ELSE [n \in 1..Cardinality(added) |->
                calls[CHOOSE k \in added : Cardinality({m \in added : m < k}) = n - 1].h]

\* C20 as stated: in a trigger of an event E other than "all" every listener
\* of E is called before any listener of "all", and the "all" listeners
\* called are the ones the "all" bucket held when the trigger began, whatever
\* the listeners of E do to that bucket in the meantime.
C20_AllBucketAtStart ==
    \A t \in 1..Len(calls) :
        SingleTrigger(t) =>
            /\ EventBeforeAll(t)
            /\ (Completed(t) /\ OnlyRegistryCalls(t))
                  => CalledFor(t, <<"all">>) = calls[t].hadAll

\* C20, amended: in a trigger of an event E other than "all" every listener
\* of E is called before any listener of "all".  The "all" listeners called
\* are those of the array that is the "all" bucket when the trigger begins:
\* when no listener throws or triggers, the dispatch calls every listener the
\* "all" bucket held when the trigger began, also those a listener of E has
\* removed meanwhile, and after them every listener that the listeners of E
\* added to "all" before any off looked at the "all" bucket; when there was
\* no "all" bucket as the trigger began it calls none.
C20_AllArrayAtStart ==
    \A t \in 1..Len(calls) :
        SingleTrigger(t) =>
            /\ EventBeforeAll(t)
            /\ (Completed(t) /\ OnlyRegistryCalls(t))
                  => CalledFor(t, <<"all">>) = calls[t].hadAll \o AddedInPlace(t)

\* on("all", g), on("evt", f), trigger("evt"): f, while it runs, removes the
\* "all" bucket; g was called all the same, after f
C20_Witness ==
    /\ Len(calls) = 4
    /\ calls[1].name = AllName /\ calls[2].name = Evt
    /\ SingleTrigger(3)
    /\ calls[4].op = "off" /\ calls[4].name = AllName /\ calls[4].depth = 1
    /\ calls[4].gone = {calls[1].h}
    /\ Completed(3)
    /\ IdsOf(log) = <<calls[2].h, calls[1].h>>
    /\ log[2].bucket = AllName

----------------------------------------------------------------------------
(* C17 *)

\* the listener call (index in log) that raised the error e
Thrower(e) ==
    CHOOSE x \in 1..raised[e].at :
        /\ log[x].depth = raised[e].depth
        /\ \A y \in (x + 1)..raised[e].at : log[y].depth # raised[e].depth

\* C17: when a listener throws during a trigger, the error reaches the
\* caller of the trigger (the dispatch is over and the error is raised), no
\* listener that comes later in that dispatch, the "all" listeners included,
\* is called, and the removals made stay: a once listener called before the
\* throw, or whose own callback threw, is no longer registered and is never
\* called again.
C17_ListenerThrows ==
    \A e \in 1..Len(raised) :
        raised[e].what = "listener" =>
            /\ Finished(log[Thrower(e)].call)
            /\ \A y \in (Thrower(e) + 1)..Len(log) : log[y].call # log[Thrower(e)].call
            /\ \A y \in 1..Thrower(e) :
                  log[y].once =>
                      /\ log[y].id \notin IdsIn(channels)
                      /\ \A z \in 1..Len(log) : log[z].id = log[y].id => z = y

\* once("evt", f), on("all", g), trigger("evt"): f threw; g was not called and
\* is the only listener left
C17_Witness ==
    /\ Len(calls) = 4
    /\ calls[2].op = "once" /\ calls[2].name = Evt
    /\ calls[3].op = "on" /\ calls[3].name = AllName
    /\ calls[4].op = "trigger" /\ calls[4].name = Evt
    /\ Len(raised) = 1 /\ raised[1].what = "listener"
    /\ stack = <<>>
    /\ IdsOf(log) = <<calls[2].h>>
    /\ IdsIn(channels) = {calls[3].h}

----------------------------------------------------------------------------
(* C18 *)

\* C18: no bucket is left empty: in every state, also while listeners run,
\* every event name a registry has a bucket for has at least one listener
\* record in it.
C18_NoEmptyBucket ==
    \A c \in DOMAIN channels :
        /\ \A n \in DOMAIN channels[c].events : Len(channels[c].events[n]) >= 1
        /\ ~channels[c].hasEvents => DOMAIN channels[c].events = {}

\* on("evt", f), trigger("evt"): f, while it runs, removes its own record
\* with off("evt", f); the registry has no bucket left
C18_Witness ==
    /\ Len(calls) = 4
    /\ calls[2].op = "on" /\ calls[2].name = Evt
    /\ calls[3].op = "trigger" /\ calls[3].name = Evt
    /\ calls[4].op = "off" /\ calls[4].name = Evt /\ calls[4].callback.kind = "fn"
    /\ calls[4].depth = 1
    /\ calls[4].gone = {calls[2].h}
    /\ channels[DefaultChannel].hasEvents
    /\ DOMAIN channels[DefaultChannel].events = {}

----------------------------------------------------------------------------
(* C19 *)

\* the step is a call of stopListening() with no argument
StopAllStep ==
    /\ Len(calls') = Len(calls) + 1
    /\ calls'[Len(calls')].op = "stopListening"
    /\ calls'[Len(calls')].args = <<>>
    /\ calls'[Len(calls')].name = <<>>
    /\ calls'[Len(calls')].callback.kind = "none"

StopAllEffect ==
    LET a == calls'[Len(calls')].target
        this == [obj |-> "registry", n |-> channels[a].oid]
        sources == {channels[a].listeningTo[k] : k \in DOMAIN channels[a].listeningTo}
    IN  /\ DOMAIN channels' = DOMAIN channels
        /\ DOMAIN channels'[a].listeningTo = {}
        /\ \A ch \in DOMAIN channels :
              channels[ch].oid \in sources =>
                  \A n \in (DOMAIN channels[ch].events) \cup (DOMAIN channels'[ch].events) :
                      Bucket(channels'[ch], n) =
                          SelectSeq(Bucket(channels[ch], n), LAMBDA ev : ev.context # this)

=============================================================================
